---- MODULE Spec2Model ----
(***************************************************************************)
(* Model of the expense ledger of output/expenses.py: a UserAccount        *)
(* holding a balance and an ExpenseManager holding the list of expenses,   *)
(* with the mutating operations add_expense, update_expense and            *)
(* delete_expense (Spec, SpecAnyCategory), the period queries (SpecQuery)  *)
(* and generate_report (SpecReport).  Amounts are integers (the classes    *)
(* accept int as well as float); dates are day ordinals, compared as       *)
(* datetime.date compares.  Every operation is one atomic step             *)
(* (single-threaded, synchronous); an operation that raises keeps whatever *)
(* it had mutated before raising.                                          *)
(***************************************************************************)
EXTENDS Integers, Sequences, FiniteSets, TLC

\* ---- bounds of the model ----
MaxInitial == 2
MaxAmount == 2
MaxLen == 2
MaxBalance == 3

InitialBalances == 0..MaxInitial
Amounts == -1..MaxAmount
Indices == -1..MaxLen
\* The category, date and description an expense is entered with; dates are day ordinals.
Details == {<<"Food", 1, "lunch">>, <<"Transport", 2, "">>}

VARIABLES
    initial_balance,  \* the argument UserAccount was constructed with
    balance,          \* UserAccount.balance
    expenses,         \* ExpenseManager.expenses, a sequence of Expense records
    call,             \* the operation called last, with its arguments (for generate_report:
                      \* the period asked for and the window computed)
    outcome,          \* "ok" or the exception the last operation raised
    pre,              \* the balance and the expenses the last operation was called at
    result,           \* what the last operation returned (None for the mutating operations)
    today             \* datetime.date.today(), as <<year, month, day>>

vars == <<initial_balance, balance, expenses, call, outcome, pre, result, today>>

\* The return value of a method without a return statement.
None == "None"

\* ---- exceptions, by type and message ----
OK == "ok"
AmountNotPositive == "ValueError: Amount must be positive."
ExceedsAvailable == "ValueError: Expense amount exceeds available balance."
ExceedsAvailableAfterUpdate == "ValueError: Expense amount exceeds available balance after update."
InvalidIndex == "IndexError: Invalid expense index."
ListIndexOutOfRange == "IndexError: list index out of range"

\* ---- Expense ----
\* Expense.__init__ raises ValueError unless amount > 0 (the type checks hold
\* for every input drawn here; category is not checked for emptiness).
ExpenseRaises(amount, category, date, description) == amount <= 0

Expense(amount, category, date, description) ==
    [amount |-> amount, category |-> category, date |-> date, description |-> description]

\* ---- UserAccount ----
\* UserAccount.__init__ raises ValueError for a negative initial balance.
UserAccountRaises(initial) == initial < 0

\* Variant of update_balance: the balance is left as it is.
update_balance_forgotten(b, expense_amount) == b

\* update_balance(expense_amount): self.balance -= expense_amount
update_balance(b, expense_amount) == b - expense_amount

get_balance(b) == b

\* ---- Python list indexing ----
\* list[index] raises IndexError outside -len..len-1; a negative index counts from the end.
getitem_raises(list, index) == index >= Len(list) \/ index < 0 - Len(list)

getitem(list, index) ==
    IF index >= 0 THEN list[index + 1] ELSE list[Len(list) + index + 1]

\* Variant of setitem: the value always replaces the last entry.
setitem_last(list, index, value) == [list EXCEPT ![Len(list)] = value]

setitem(list, index, value) ==
    IF index >= 0 THEN [list EXCEPT ![index + 1] = value]
    ELSE [list EXCEPT ![Len(list) + index + 1] = value]

\* Variant of delitem: the last entry is removed whatever the index (list.pop()).
delitem_last(list, index) == SubSeq(list, 1, Len(list) - 1)

delitem(list, index) ==
    LET k == IF index >= 0 THEN index + 1 ELSE Len(list) + index + 1
    IN  [j \in 1..(Len(list) - 1) |-> IF j < k THEN list[j] ELSE list[j + 1]]

\* ---- ExpenseManager guards ----
\* Variant of exceeds_balance: the comparison off by one.
exceeds_balance_off_by_one(amount, b) == amount > get_balance(b) + 1

\* add_expense: if amount > self.user_account.get_balance()
exceeds_balance(amount, b) == amount > get_balance(b)

\* Variant of index_invalid: the lower bound is not checked.
index_invalid_upper_only(index, list) == ~(index < Len(list))

\* update_expense, delete_expense: if not 0 <= index < len(self.expenses)
index_invalid(index, list) == ~(0 <= index /\ index < Len(list))

\* Variant of available_balance: the old amount is not counted as available.
available_balance_without_old(b, balance_increase) == get_balance(b)

\* update_expense: available_balance = get_balance() + balance_increase
available_balance(b, balance_increase) == get_balance(b) + balance_increase

\* sum(expense.amount for expense in ...)
RECURSIVE SumAmounts(_)
SumAmounts(list) ==
    IF Len(list) = 0 THEN 0 ELSE list[1].amount + SumAmounts(Tail(list))

TypeOK ==
    /\ initial_balance \in InitialBalances
    /\ balance \in Int
    /\ balance <= MaxBalance
    /\ Len(expenses) <= MaxLen
    /\ \A k \in 1..Len(expenses) : expenses[k].amount \in 1..MaxAmount
    /\ call.op \in {"init", "add_expense", "update_expense", "delete_expense"}

Init ==
    /\ initial_balance \in InitialBalances
    /\ ~UserAccountRaises(initial_balance)
    /\ balance = initial_balance
    /\ expenses = <<>>
    /\ call = [op |-> "init", index |-> 0, amount |-> initial_balance]
    /\ outcome = OK
    /\ pre = [balance |-> initial_balance, expenses |-> <<>>]
    /\ result = None
    /\ today = <<1, 1, 1>>

\* What every mutating operation records and leaves alone.
Called(name, index, amount) ==
    /\ call' = [op |-> name, index |-> index, amount |-> amount]
    /\ pre' = [balance |-> balance, expenses |-> expenses]
    /\ result' = None
    /\ UNCHANGED <<initial_balance, today>>

add_expense(amount, category, date, description) ==
    /\ Called("add_expense", 0, amount)
    /\ IF exceeds_balance(amount, balance)
       THEN /\ outcome' = ExceedsAvailable
            /\ UNCHANGED <<balance, expenses>>
       ELSE IF ExpenseRaises(amount, category, date, description)
       THEN /\ outcome' = AmountNotPositive
            /\ UNCHANGED <<balance, expenses>>
       ELSE /\ Len(expenses) < MaxLen
            /\ expenses' = Append(expenses, Expense(amount, category, date, description))
            /\ balance' = update_balance(balance, amount)
            /\ outcome' = OK

update_expense(index, amount, category, date, description) ==
    /\ Called("update_expense", index, amount)
    /\ IF index_invalid(index, expenses)
       THEN /\ outcome' = InvalidIndex
            /\ UNCHANGED <<balance, expenses>>
       ELSE IF getitem_raises(expenses, index)
       THEN /\ outcome' = ListIndexOutOfRange
            /\ UNCHANGED <<balance, expenses>>
       ELSE LET original_expense == getitem(expenses, index)
                balance_increase == original_expense.amount
                reverted == update_balance(balance, balance_increase)
            IN  IF amount > available_balance(balance, balance_increase)
                THEN /\ outcome' = ExceedsAvailableAfterUpdate
                     /\ UNCHANGED <<balance, expenses>>
                ELSE IF ExpenseRaises(amount, category, date, description)
                THEN /\ outcome' = AmountNotPositive
                     /\ balance' = reverted
                     /\ UNCHANGED expenses
                ELSE /\ update_balance(reverted, 0 - amount) <= MaxBalance
                     /\ expenses' = setitem(expenses, index,
                                            Expense(amount, category, date, description))
                     /\ balance' = update_balance(reverted, 0 - amount)
                     /\ outcome' = OK

delete_expense(index) ==
    /\ Called("delete_expense", index, 0)
    /\ IF index_invalid(index, expenses)
       THEN /\ outcome' = InvalidIndex
            /\ UNCHANGED <<balance, expenses>>
       ELSE IF getitem_raises(expenses, index)
       THEN /\ outcome' = ListIndexOutOfRange
            /\ UNCHANGED <<balance, expenses>>
       ELSE LET expense == getitem(expenses, index)
            IN  /\ balance' = update_balance(balance, expense.amount)
                /\ expenses' = delitem(expenses, index)
                /\ outcome' = OK

AddExpense ==
    \E amount \in Amounts, d \in Details : add_expense(amount, d[1], d[2], d[3])

UpdateExpense ==
    \E index \in Indices, amount \in Amounts, d \in Details :
        update_expense(index, amount, d[1], d[2], d[3])

DeleteExpense ==
    \E index \in Indices : delete_expense(index)

Next == AddExpense \/ UpdateExpense \/ DeleteExpense

Spec == Init /\ [][Next]_vars

\* ---- the same operations, entered with any text as category ----
\* The category is free text (a gr.Textbox in app.py): it may be left empty.
AnyDetails == Details \cup {<<"", 2, "">>}

AddExpenseAnyCategory ==
    \E amount \in Amounts, d \in AnyDetails : add_expense(amount, d[1], d[2], d[3])

UpdateExpenseAnyCategory ==
    \E index \in Indices, amount \in Amounts, d \in AnyDetails :
        update_expense(index, amount, d[1], d[2], d[3])

NextAnyCategory == AddExpenseAnyCategory \/ UpdateExpenseAnyCategory \/ DeleteExpense

SpecAnyCategory == Init /\ [][NextAnyCategory]_vars

\* ---- the period queries ----
\* Variant of in_period: the end date is excluded.
in_period_exclusive_end(date, start_date, end_date) ==
    start_date <= date /\ date < end_date

\* Variant of in_period: either bound is enough.
in_period_either_bound(date, start_date, end_date) ==
    start_date <= date \/ date <= end_date

\* get_expenses_by_period: if start_date <= expense.date <= end_date
in_period(date, start_date, end_date) ==
    start_date <= date /\ date <= end_date

\* [expense for expense in self.expenses if ...]
RECURSIVE get_expenses_by_period(_, _, _)
get_expenses_by_period(list, start_date, end_date) ==
    IF Len(list) = 0 THEN <<>>
    ELSE (IF in_period(Head(list).date, start_date, end_date) THEN <<Head(list)>> ELSE <<>>)
         \o get_expenses_by_period(Tail(list), start_date, end_date)

calculate_total_expenses(list, start_date, end_date) ==
    SumAmounts(get_expenses_by_period(list, start_date, end_date))

\* category_totals: Dict[str, float] = {}
EmptyDict == [category \in {} |-> 0]

\* Variant of category_totals_add: the amount replaces the total instead of adding to it.
category_totals_overwrite(category_totals, category, amount) ==
    [c \in DOMAIN category_totals \cup {category} |->
        IF c = category THEN amount ELSE category_totals[c]]

\* category_totals[category] = category_totals.get(category, 0) + amount
category_totals_add(category_totals, category, amount) ==
    [c \in DOMAIN category_totals \cup {category} |->
        IF c = category
        THEN (IF c \in DOMAIN category_totals THEN category_totals[c] ELSE 0) + amount
        ELSE category_totals[c]]

\* for expense in expenses_in_period: ...
RECURSIVE category_totals_loop(_, _)
category_totals_loop(list, category_totals) ==
    IF Len(list) = 0 THEN category_totals
    ELSE category_totals_loop(Tail(list),
            category_totals_add(category_totals, Head(list).category, Head(list).amount))

get_expenses_by_category(list, start_date, end_date) ==
    category_totals_loop(get_expenses_by_period(list, start_date, end_date), EmptyDict)

\* The expenses add_expense accepts from the inputs of the model.
Entries ==
    {Expense(amount, d[1], d[2], d[3]) : amount \in 1..MaxAmount, d \in Details}

\* The ledgers of up to MaxLen such expenses.
Ledgers == UNION {[1..n -> Entries] : n \in 0..MaxLen}

\* The dates a period is asked for: the day before the first entry date to the day
\* after the last one.
PeriodDates == 0..3

\* A ledger as a run of add_expense calls leaves it, on an account that could pay them all.
InitQuery ==
    /\ initial_balance = MaxLen * MaxAmount
    /\ expenses \in Ledgers
    /\ balance = initial_balance - SumAmounts(expenses)
    /\ call = [op |-> "init", index |-> 0, amount |-> initial_balance]
    /\ outcome = OK
    /\ pre = [balance |-> balance, expenses |-> expenses]
    /\ result = None
    /\ today = <<1, 1, 1>>

\* What every period query records and leaves alone: none of them assigns to the
\* account or to the list.
Queried(name, start_date, end_date, value) ==
    /\ call' = [op |-> name, start_date |-> start_date, end_date |-> end_date]
    /\ pre' = [balance |-> balance, expenses |-> expenses]
    /\ result' = value
    /\ outcome' = OK
    /\ UNCHANGED <<initial_balance, balance, expenses, today>>

GetExpensesByPeriod ==
    \E start_date \in PeriodDates, end_date \in PeriodDates :
        Queried("get_expenses_by_period", start_date, end_date,
                get_expenses_by_period(expenses, start_date, end_date))

CalculateTotalExpenses ==
    \E start_date \in PeriodDates, end_date \in PeriodDates :
        Queried("calculate_total_expenses", start_date, end_date,
                calculate_total_expenses(expenses, start_date, end_date))

GetExpensesByCategory ==
    \E start_date \in PeriodDates, end_date \in PeriodDates :
        Queried("get_expenses_by_category", start_date, end_date,
                get_expenses_by_category(expenses, start_date, end_date))

NextQuery == GetExpensesByPeriod \/ CalculateTotalExpenses \/ GetExpensesByCategory

SpecQuery == InitQuery /\ [][NextQuery]_vars

\* ---- datetime.date, as the report uses it ----
\* A date is <<year, month, day>>; its ordinal counts days from 0001-01-01 = 1, and
\* dates compare as their ordinals do.  Expense dates and windows are ordinals.
is_leap(year) ==
    year % 4 = 0 /\ (year % 100 /= 0 \/ year % 400 = 0)

days_in_month(year, month) ==
    IF month = 2 THEN (IF is_leap(year) THEN 29 ELSE 28)
    ELSE IF month \in {4, 6, 9, 11} THEN 30 ELSE 31

days_before_year(year) ==
    LET y == year - 1 IN y * 365 + (y \div 4) - (y \div 100) + (y \div 400)

\* The days of the year before the first of the month (a table, plus the leap day).
days_before_month(year, month) ==
    <<0, 31, 59, 90, 120, 151, 181, 212, 243, 273, 304, 334>>[month]
        + (IF month > 2 /\ is_leap(year) THEN 1 ELSE 0)

\* datetime.date(year, month, day) raises ValueError outside MINYEAR..MAXYEAR (1..9999),
\* months 1..12 and the days of the month.
date_raises(year, month, day) ==
    \/ year < 1 \/ year > 9999
    \/ month < 1 \/ month > 12
    \/ day < 1 \/ day > days_in_month(year, month)

toordinal(date) ==
    days_before_year(date[1]) + days_before_month(date[1], date[2]) + date[3]

\* date +/- timedelta raises OverflowError when the result leaves date.min..date.max.
timedelta_raises(ordinal) ==
    ordinal < 1 \/ ordinal > toordinal(<<9999, 12, 31>>)

\* date.weekday(): Monday is 0
weekday(date) == (toordinal(date) + 6) % 7

InvalidPeriod == "ValueError: Invalid period.  Must be 'weekly', 'monthly', or 'yearly'."
YearOutOfRange == "ValueError: year 10000 is out of range"
DateValueOutOfRange == "OverflowError: date value out of range"

\* ---- generate_report ----
\* The window generate_report computes for a period, or the exception raised on the way.
weekly_window(date) ==
    LET start_date == toordinal(date) - weekday(date)
        end_date == start_date + 6
    IN  IF timedelta_raises(start_date) \/ timedelta_raises(end_date)
        THEN [raised |-> DateValueOutOfRange, start_date |-> 0, end_date |-> 0]
        ELSE [raised |-> OK, start_date |-> start_date, end_date |-> end_date]

monthly_window(date) ==
    LET year == date[1]
        month == date[2]
        start_date == toordinal(<<year, month, 1>>)
        next_month == IF month < 12 THEN month + 1 ELSE 1
        next_year == IF month = 12 THEN year + 1 ELSE year
        end_date == toordinal(<<next_year, next_month, 1>>) - 1
    IN  IF date_raises(next_year, next_month, 1)
        THEN [raised |-> YearOutOfRange, start_date |-> 0, end_date |-> 0]
        ELSE IF timedelta_raises(end_date)
        THEN [raised |-> DateValueOutOfRange, start_date |-> 0, end_date |-> 0]
        ELSE [raised |-> OK, start_date |-> start_date, end_date |-> end_date]

yearly_window(date) ==
    LET year == date[1]
    IN  [raised |-> OK, start_date |-> toordinal(<<year, 1, 1>>),
         end_date |-> toordinal(<<year, 12, 31>>)]

report_label(period) ==
    IF period = "weekly" THEN "Weekly Report"
    ELSE IF period = "monthly" THEN "Monthly Report"
    ELSE "Yearly Report"

report_data(list, label, start_date, end_date) ==
    [key \in {label} |->
        [total_expenses |-> calculate_total_expenses(list, start_date, end_date),
         category_breakdown |-> get_expenses_by_category(list, start_date, end_date)]]

generate_report(period) ==
    LET window == IF period = "weekly" THEN weekly_window(today)
                  ELSE IF period = "monthly" THEN monthly_window(today)
                  ELSE IF period = "yearly" THEN yearly_window(today)
                  ELSE [raised |-> InvalidPeriod, start_date |-> 0, end_date |-> 0]
    IN  /\ call' = [op |-> "generate_report", period |-> period,
                    start_date |-> window.start_date, end_date |-> window.end_date]
        /\ pre' = [balance |-> balance, expenses |-> expenses]
        /\ outcome' = window.raised
        /\ result' = IF window.raised = OK
                     THEN report_data(expenses, report_label(period),
                                      window.start_date, window.end_date)
                     ELSE None
        /\ UNCHANGED <<initial_balance, balance, expenses, today>>

\* The values the period radio button offers, and two it does not.
Periods == {"weekly", "monthly", "yearly", "daily", ""}

\* The years today is drawn from: a common year, a leap year, a century that is no leap
\* year, and the last year datetime.date has.
ReportYears == {2023, 2024, 2100, 9999}

Todays ==
    {<<year, month, day>> : year \in ReportYears, month \in 1..12, day \in 1..31}
        \ {date \in ReportYears \X (1..12) \X (1..31) : date_raises(date[1], date[2], date[3])}

\* An expense entered today and one entered a month (31 days) ago.
ReportEntries(date) ==
    {Expense(1, "Food", toordinal(date), "lunch"),
     Expense(2, "Transport", toordinal(date) - 31, "")}

\* A ledger of up to two such expenses, on an account that could pay them, on any day.
InitReport ==
    /\ today \in Todays
    /\ initial_balance = 4
    /\ expenses \in UNION {[1..n -> ReportEntries(today)] : n \in 0..2}
    /\ balance = initial_balance - SumAmounts(expenses)
    /\ call = [op |-> "init", index |-> 0, amount |-> initial_balance]
    /\ outcome = OK
    /\ pre = [balance |-> balance, expenses |-> expenses]
    /\ result = None

GenerateReport == \E period \in Periods : generate_report(period)

NextReport == GenerateReport

SpecReport == InitReport /\ [][NextReport]_vars

\* ---- the claims ----

\* The last call named an existing entry of the list it was called on.
CalledOnValidIndex ==
    0 <= call.index /\ call.index < Len(pre.expenses)

\* The expense the last call's index named, as it was before the call.
OldExpense == pre.expenses[call.index + 1]

\* The last call left the balance and every entry of the sequence as they were.
StateUnchanged ==
    balance = pre.balance /\ expenses = pre.expenses

\* C1: after every operation the balance equals initial_balance minus the sum of the
\* amounts of the expenses currently in the sequence.
C1_BalanceIsInitialMinusExpenses ==
    balance = initial_balance - SumAmounts(expenses)

\* C2: delete_expense(index) with 0 <= index < length restores the balance: the balance
\* after the call is the balance before it plus the amount of the deleted expense.
C2_DeleteRestoresBalance ==
    (call.op = "delete_expense" /\ CalledOnValidIndex)
        => balance = pre.balance + OldExpense.amount

\* C3: a successful update_expense(index, amount, ...) has the net effect of deleting the
\* old expense and adding the new one: balance_after = balance_before + old_amount - amount.
C3_UpdateNetEffect ==
    (call.op = "update_expense" /\ CalledOnValidIndex /\ outcome = OK)
        => balance = pre.balance + OldExpense.amount - call.amount

\* C4: add_expense with amount > current balance fails with the insufficient-balance
\* error and leaves the balance, the length and every entry of the sequence as they were.
C4_AddOverBalanceFailsUnchanged ==
    (call.op = "add_expense" /\ call.amount > pre.balance)
        => (outcome = ExceedsAvailable /\ StateUnchanged)

\* C4 witness: an add_expense on a non-empty ledger asked for more than the balance.
C4_Witness ==
    call.op = "add_expense" /\ call.amount > pre.balance /\ Len(pre.expenses) > 0

\* C5: update_expense with a valid index and an amount that passes the balance check but
\* is not positive fails with the validation error, and the balance and the sequence are
\* exactly as before the call.
C5_UpdateValidationFailureRolledBack ==
    (/\ call.op = "update_expense" /\ CalledOnValidIndex
     /\ call.amount <= pre.balance + OldExpense.amount
     /\ call.amount <= 0)
        => (outcome = AmountNotPositive /\ StateUnchanged)

\* C6: after any sequence of add_expense, update_expense and delete_expense calls,
\* successful or failing, the balance is never negative.
C6_BalanceNeverNegative ==
    balance >= 0

\* C7: deleting the expense at a valid index and then calling add_expense with the fields
\* of the deleted expense succeeds and leaves the balance as it was before the delete.
C7_DeleteThenReAddRestoresBalance ==
    [][(call.op = "delete_expense" /\ outcome = OK /\ call'.op = "add_expense") =>
        \A d \in Details :
            (/\ Expense(call'.amount, d[1], d[2], d[3]) = OldExpense
             /\ add_expense(call'.amount, d[1], d[2], d[3]))
                => (outcome' = OK /\ balance' = pre.balance)]_vars

\* C8: update_expense on a valid index with exactly the current amount, category, date
\* and description of that expense succeeds and leaves the balance, the length and every
\* expense of the sequence unchanged.
C8_UpdateToOwnValuesIsNoOp ==
    [][(call'.op = "update_expense" /\ 0 <= call'.index /\ call'.index < Len(expenses)) =>
        \A d \in Details :
            (/\ Expense(call'.amount, d[1], d[2], d[3]) = expenses[call'.index + 1]
             /\ update_expense(call'.index, call'.amount, d[1], d[2], d[3]))
                => (outcome' = OK /\ balance' = balance /\ expenses' = expenses)]_vars

\* C9: update_expense with a valid index fails with the insufficient-balance error exactly
\* when amount > balance + old amount, and on that failure the balance and the sequence
\* are unchanged.
C9_UpdateInsufficientExactly ==
    (call.op = "update_expense" /\ CalledOnValidIndex)
        => /\ (outcome = ExceedsAvailableAfterUpdate)
                <=> (call.amount > pre.balance + OldExpense.amount)
           /\ (outcome = ExceedsAvailableAfterUpdate) => StateUnchanged

\* C9 witness: an update_expense of an existing expense asked for more than the balance
\* plus the old amount.
C9_Witness ==
    /\ call.op = "update_expense" /\ CalledOnValidIndex
    /\ call.amount > pre.balance + OldExpense.amount

\* C10: update_expense and delete_expense with an index outside [0, length), negative
\* or >= length, fail with the index error and leave the balance and all entries unchanged.
C10_IndexOutOfRangeFailsUnchanged ==
    (call.op \in {"update_expense", "delete_expense"} /\ ~CalledOnValidIndex)
        => (outcome = InvalidIndex /\ StateUnchanged)

\* C10 witness: an operation on a two-entry ledger was called with an index outside 0..1.
C10_Witness ==
    /\ call.op \in {"update_expense", "delete_expense"}
    /\ Len(pre.expenses) = 2
    /\ ~CalledOnValidIndex

\* C11: add_expense with amount <= 0 fails with the validation error, not with the
\* insufficient-balance error, and leaves the sequence and the balance unchanged.
C11_AddNonPositiveIsValidationError ==
    (call.op = "add_expense" /\ call.amount <= 0)
        => (outcome = AmountNotPositive /\ StateUnchanged)

\* C13: an add_expense with a positive amount <= balance (amount = balance included)
\* succeeds, and a successful add_expense appends the new expense at index = previous
\* length, leaves every earlier entry in place and decreases the balance by amount.
C13_AddAppendsAndDeducts ==
    [][call'.op = "add_expense" =>
        /\ (call'.amount > 0 /\ call'.amount <= balance) => outcome' = OK
        /\ outcome' = OK =>
            \A d \in Details :
                add_expense(call'.amount, d[1], d[2], d[3])
                => /\ Len(expenses') = Len(expenses) + 1
                   /\ \A k \in 1..Len(expenses) : expenses'[k] = expenses[k]
                   /\ expenses'[Len(expenses) + 1] =
                        [amount |-> call'.amount, category |-> d[1],
                         date |-> d[2], description |-> d[3]]
                   /\ balance' = balance - call'.amount]_vars

\* C13 witness: an add_expense of exactly the balance succeeded on a non-empty ledger.
C13_Witness ==
    /\ call.op = "add_expense" /\ outcome = OK
    /\ call.amount = pre.balance
    /\ Len(pre.expenses) >= 1
    /\ Len(expenses) = Len(pre.expenses) + 1

\* C18: a successful delete_expense(i) reduces the length by one, leaves the entries at
\* indices < i unchanged and moves each entry formerly at index j > i to index j - 1.
C18_DeleteShiftsLaterEntries ==
    (call.op = "delete_expense" /\ outcome = OK)
        => /\ CalledOnValidIndex
           /\ Len(expenses) = Len(pre.expenses) - 1
           /\ \A j \in 0..(Len(pre.expenses) - 1) :
                /\ j < call.index => expenses[j + 1] = pre.expenses[j + 1]
                /\ j > call.index => expenses[j] = pre.expenses[j + 1]

\* C18 witness: the first of two different entries was deleted.
C18_Witness ==
    /\ call.op = "delete_expense" /\ outcome = OK
    /\ call.index = 0
    /\ Len(pre.expenses) = 2
    /\ pre.expenses[1] /= pre.expenses[2]

\* C19: a successful update_expense(i, ...) replaces only the entry at index i, with an
\* expense carrying the new fields: the length and every other entry are unchanged.
C19_UpdateReplacesOnlyIndex ==
    [][(call'.op = "update_expense" /\ outcome' = OK) =>
        \A d \in Details :
            update_expense(call'.index, call'.amount, d[1], d[2], d[3])
            => /\ 0 <= call'.index /\ call'.index < Len(expenses)
               /\ Len(expenses') = Len(expenses)
               /\ \A k \in 1..Len(expenses) :
                    expenses'[k] =
                        IF k = call'.index + 1
                        THEN [amount |-> call'.amount, category |-> d[1],
                              date |-> d[2], description |-> d[3]]
                        ELSE expenses[k]]_vars

\* C19 witness: the first entry of a two-entry ledger was replaced by a different expense.
C19_Witness ==
    /\ call.op = "update_expense" /\ outcome = OK
    /\ call.index = 0
    /\ Len(pre.expenses) = 2
    /\ expenses[1] /= pre.expenses[1]
    /\ expenses[2] = pre.expenses[2]

\* C12: add_expense and update_expense with an empty category fail with the validation
\* error, so no expense with an empty category is ever present in the sequence.
C12_NoEmptyCategoryInLedger ==
    \A k \in 1..Len(expenses) : expenses[k].category /= ""

\* The indices (from 1) of the entries of list dated from start_date to end_date, both
\* ends included.
IndicesInPeriod(list, start_date, end_date) ==
    {k \in 1..Len(list) : start_date <= list[k].date /\ list[k].date <= end_date}

\* The sum of the amounts of the entries of list at the indices of I.
RECURSIVE SumAt(_, _)
SumAt(list, I) ==
    IF I = {} THEN 0
    ELSE LET k == CHOOSE k \in I : TRUE
         IN  list[k].amount + SumAt(list, I \ {k})

\* C14: for start <= end, expenses_in_period returns exactly the expenses dated within
\* [start, end], both ends included, in insertion order, and total_in_period is the sum
\* of their amounts, 0 when none match.
C14_PeriodFilterAndTotal ==
    (/\ call.op \in {"get_expenses_by_period", "calculate_total_expenses"}
     /\ call.start_date <= call.end_date)
        => LET I == IndicesInPeriod(expenses, call.start_date, call.end_date)
           IN  /\ outcome = OK
               /\ call.op = "get_expenses_by_period" =>
                    /\ Len(result) = Cardinality(I)
                    /\ \A k \in I : result[Cardinality({j \in I : j <= k})] = expenses[k]
               /\ call.op = "calculate_total_expenses" =>
                    /\ result = SumAt(expenses, I)
                    /\ I = {} => result = 0

\* C14 witness: of two entries, only the second is in the period, dated on its last day.
C14_Witness ==
    /\ call.op = "get_expenses_by_period"
    /\ call.start_date <= call.end_date
    /\ Len(expenses) = 2
    /\ expenses[1].date < call.start_date
    /\ expenses[2].date = call.end_date
    /\ result = <<expenses[2]>>

\* The sum of the values a mapping has on the keys of D.
RECURSIVE SumOfValues(_, _)
SumOfValues(mapping, D) ==
    IF D = {} THEN 0
    ELSE LET c == CHOOSE c \in D : TRUE
         IN  mapping[c] + SumOfValues(mapping, D \ {c})

\* C15: the keys of breakdown_by_category(start, end) are exactly the categories of the
\* expenses in the period, each mapped to the sum of the amounts of its expenses in the
\* period, and the values sum to total_in_period(start, end).
C15_BreakdownByCategory ==
    call.op = "get_expenses_by_category"
        => LET I == IndicesInPeriod(expenses, call.start_date, call.end_date)
           IN  /\ outcome = OK
               /\ DOMAIN result = {expenses[k].category : k \in I}
               /\ \A c \in DOMAIN result :
                    result[c] = SumAt(expenses, {k \in I : expenses[k].category = c})
               /\ SumOfValues(result, DOMAIN result)
                    = calculate_total_expenses(expenses, call.start_date, call.end_date)

\* C15 witness: two expenses of one category are both in the period.
C15_Witness ==
    /\ call.op = "get_expenses_by_category"
    /\ Len(expenses) = 2
    /\ expenses[1].category = expenses[2].category
    /\ IndicesInPeriod(expenses, call.start_date, call.end_date) = {1, 2}
    /\ DOMAIN result = {expenses[1].category}

\* C16 (as claimed): expenses_in_period(start, end) with start > end fails with an error
\* rather than returning a result.
C16_ReversedPeriodFails ==
    (call.op = "get_expenses_by_period" /\ call.start_date > call.end_date)
        => outcome /= OK

\* C16 (amended): expenses_in_period(start, end) with start > end raises no error and
\* returns the empty sequence, leaving the ledger as it was.
C16_ReversedPeriodIsEmpty ==
    (call.op = "get_expenses_by_period" /\ call.start_date > call.end_date)
        => (outcome = OK /\ result = <<>> /\ StateUnchanged)

\* C16 witness: a period with start > end was asked of a ledger with an entry dated
\* between the two.
C16_Witness ==
    /\ call.op = "get_expenses_by_period"
    /\ call.start_date > call.end_date
    /\ \E k \in 1..Len(expenses) :
            call.end_date <= expenses[k].date /\ expenses[k].date <= call.start_date

\* The last call asked generate_report for a report it could compute without leaving
\* the range of datetime.date: today is not in the last days of the year 9999.
ReportWithinDateRange ==
    /\ call.op = "generate_report"
    /\ call.period = "monthly" => ~(today[1] = 9999 /\ today[2] = 12)
    /\ call.period = "weekly" => toordinal(today) - weekday(today) + 6 <= toordinal(<<9999, 12, 31>>)

\* C17: generate_report fails with the validation error for every period_kind other than
\* "weekly", "monthly" and "yearly"; for each of these three it returns a single-entry
\* mapping keyed by the matching label; in all cases the sequence and the balance are
\* unchanged.
C17_ReportKinds ==
    call.op = "generate_report"
        => /\ call.period \notin {"weekly", "monthly", "yearly"} => outcome = InvalidPeriod
           /\ call.period = "weekly" => (outcome = OK /\ DOMAIN result = {"Weekly Report"})
           /\ call.period = "monthly" => (outcome = OK /\ DOMAIN result = {"Monthly Report"})
           /\ call.period = "yearly" => (outcome = OK /\ DOMAIN result = {"Yearly Report"})
           /\ StateUnchanged

\* What C17 claims does hold whenever the window stays within the range of datetime.date.
ReportKindsWithinDateRange ==
    ReportWithinDateRange => C17_ReportKinds

\* C20: for every today, the window of generate_report("monthly") starts on day 1 of
\* today's month and ends on the last calendar day of that month, so that
\* start <= today <= end and an expense dated today is counted in the monthly total.
C20_MonthlyWindow ==
    (call.op = "generate_report" /\ call.period = "monthly")
        => /\ outcome = OK
           /\ call.start_date = toordinal(<<today[1], today[2], 1>>)
           /\ call.end_date = toordinal(<<today[1], today[2], days_in_month(today[1], today[2])>>)
           /\ call.start_date <= toordinal(today) /\ toordinal(today) <= call.end_date
           /\ LET I == IndicesInPeriod(expenses, call.start_date, call.end_date)
              IN  /\ \A k \in 1..Len(expenses) : expenses[k].date = toordinal(today) => k \in I
                  /\ result["Monthly Report"].total_expenses = SumAt(expenses, I)

\* What C20 claims does hold for every today before December 9999.
MonthlyWindowWithinDateRange ==
    ReportWithinDateRange => C20_MonthlyWindow

\* The ordinals of the model are those of datetime.date.toordinal().
OrdinalsAsInPython ==
    /\ toordinal(<<1, 1, 1>>) = 1
    /\ toordinal(<<2024, 3, 1>>) = 738946
    /\ toordinal(<<2100, 3, 1>>) = 766704
    /\ toordinal(<<9999, 12, 31>>) = 3652059
    /\ weekday(<<2024, 2, 10>>) = 5
    /\ weekday(<<9999, 12, 31>>) = 4

====
